---- MODULE Spec2Model ----
(***************************************************************************)
(* A model of app.py, the "Universal Website Image Scraper":               *)
(*   UniversalImageScraper.crawl_website         (the crawler)             *)
(*   UniversalImageScraper.download_all_images   (the download engine)     *)
(*   create_all_ppts                             (the deck batcher)        *)
(*   main                                        (the pipeline)            *)
(* URLs of images are TLA+ strings, so the substring tests of is_image_url *)
(* are computed as the code computes them.  A page URL is kept in the      *)
(* parsed form urlparse gives it: host (netloc), path and fragment.        *)
(***************************************************************************)
EXTENDS Integers, Sequences, FiniteSets, Bags, TLC

VARIABLES
    pc,             \* where main() is: "crawl", "download", "compose" or a terminal state
    base_url,       \* self.base_url, the seed
    to_visit,       \* crawl_website: the frontier
    visited_urls,   \* self.visited_urls
    current_batch,  \* crawl_website: the URLs of current_batch still to be processed
    page_count,     \* crawl_website: page_count
    total_images,   \* crawl_website: total_images, as the bag of its elements (it is
                    \* read only through set(), line 348)
    image_urls,     \* main: image_urls, what crawl_website returned
    tasks,          \* download_all_images: the futures, one per submitted URL
    seen_hashes,    \* self.seen_hashes
    valid_images,   \* download_all_images: valid_images, in completion order
    collected,      \* download_all_images: the futures as_completed has yielded
    result,         \* main: result_bytes, what create_all_ppts returned
    site,           \* the website: what its pages and image URLs can answer, and
                    \* in chunks of which lengths
    found_cands,    \* history: the image candidates of the pages fetched so far
    failed_pages    \* history: the pages whose fetch raised

crawl_vars == <<base_url, to_visit, visited_urls, current_batch, page_count,
                total_images, found_cands, failed_pages>>
download_vars == <<tasks, seen_hashes, valid_images, collected>>

vars == <<pc, base_url, to_visit, visited_urls, current_batch, page_count,
          total_images, image_urls, tasks, seen_hashes, valid_images, collected,
          result, site, found_cands, failed_pages>>

---------------------------------------------------------------------------
(* Bounds of the model *)

\* page paths on a host are 0..MaxPath
MaxPath == 2

---------------------------------------------------------------------------
(* Strings *)

\* Python's `p in s`
Contains(s, p) ==
    \E i \in 1..(Len(s) - Len(p) + 1) : SubSeq(s, i, i + Len(p) - 1) = p

\* Python's s.endswith(p)
EndsWith(s, p) ==
    Len(s) >= Len(p) /\ SubSeq(s, Len(s) - Len(p) + 1, Len(s)) = p

\* Python's s.replace(p, r): every non-overlapping occurrence, left to right
RECURSIVE Replace(_, _, _)
Replace(s, p, r) ==
    IF Len(s) < Len(p) THEN s
    ELSE IF SubSeq(s, 1, Len(p)) = p
         THEN r \o Replace(SubSeq(s, Len(p) + 1, Len(s)), p, r)
         ELSE SubSeq(s, 1, 1) \o Replace(SubSeq(s, 2, Len(s)), p, r)

\* Python's s.split(sep)[0]: the text before the first sep
RECURSIVE SplitFirst(_, _)
SplitFirst(s, sep) ==
    IF Len(s) < Len(sep) THEN s
    ELSE IF SubSeq(s, 1, Len(sep)) = sep THEN ""
         ELSE SubSeq(s, 1, 1) \o SplitFirst(SubSeq(s, 2, Len(s)), sep)

---------------------------------------------------------------------------
(* Page URLs *)

Hosts == {"a.com", "www.a.com", "b.com", "dev.www.a.com", "dev.a.com"}
Paths == 0..MaxPath
NoFragment == ""

\* self.domain = urlparse(base_url).netloc
domain == base_url.host

\* normalize_url: the URL without its fragment
normalize_url(url) == [url EXCEPT !.frag = NoFragment]

\* f'www.{self.domain}' and self.domain.replace('www.', ''), for every host
WwwPrefixed == [h \in Hosts |-> "www." \o h]
WwwRemoved == [h \in Hosts |-> Replace(h, "www.", "")]

\* is_valid_url: same host, its www. variant, or the host with every "www." removed
is_valid_url(url) ==
    \/ url.host = domain
    \/ url.host = WwwPrefixed[domain]
    \/ url.host = WwwRemoved[domain]

\* the absolute URLs urljoin gives the hrefs of a page: pages of the site under
\* both of its host names, one of them with a fragment, a page of its staging
\* host, and a foreign page
Hrefs ==
    [host : {"a.com"}, path : Paths, frag : {NoFragment}]
        \cup {[host |-> "www.a.com", path |-> MaxPath, frag |-> NoFragment],
              [host |-> "a.com", path |-> MaxPath, frag |-> "top"],
              [host |-> "dev.a.com", path |-> 0, frag |-> NoFragment],
              [host |-> "b.com", path |-> 0, frag |-> NoFragment]}

\* extract_all_links: the normalized same-domain links not yet visited
extract_all_links(hrefs, visited) ==
    {normalize_url(h) : h \in {x \in hrefs :
        is_valid_url(normalize_url(x)) /\ normalize_url(x) \notin visited}}

---------------------------------------------------------------------------
(* Image URLs *)

\* Python's str.lower on one character
LowerChar(c) ==
    CASE c = "A" -> "a" []
         c = "B" -> "b" []
         c = "C" -> "c" []
         c = "D" -> "d" []
         c = "E" -> "e" []
         c = "F" -> "f" []
         c = "G" -> "g" []
         c = "H" -> "h" []
         c = "I" -> "i" []
         c = "J" -> "j" []
         c = "K" -> "k" []
         c = "L" -> "l" []
         c = "M" -> "m" []
         c = "N" -> "n" []
         c = "O" -> "o" []
         c = "P" -> "p" []
         c = "Q" -> "q" []
         c = "R" -> "r" []
         c = "S" -> "s" []
         c = "T" -> "t" []
         c = "U" -> "u" []
         c = "V" -> "v" []
         c = "W" -> "w" []
         c = "X" -> "x" []
         c = "Y" -> "y" []
         c = "Z" -> "z" []
         OTHER -> c

\* Python's s.lower()
RECURSIVE Lower(_)
Lower(s) ==
    IF s = "" THEN "" ELSE LowerChar(SubSeq(s, 1, 1)) \o Lower(SubSeq(s, 2, Len(s)))

image_extensions ==
    {".jpg", ".jpeg", ".png", ".gif", ".bmp", ".webp", ".svg", ".ico", ".tiff",
     ".tif", ".avif", ".jfif", ".pjpeg", ".pjp", ".apng", ".heic", ".heif"}

image_keywords ==
    {"/image/", "/img/", "/photo/", "/picture/", "/pic/", "/media/", "/asset/",
     "/upload/", "/content/", "/gallery/", "/thumbnail/", "/thumb/", "/banner/",
     "/icon/", "/logo/", "/bg/", "/background/", "/files/"}

cdn_patterns ==
    {"cloudinary", "imgix", "cloudflare", "fastly", "akamai", "images", "static",
     "cdn", "assets"}

\* the reject and accept vocabularies of a relevance filter
RejectKeywords ==
    {"logo", "icon", "sprite", "badge", "cart", "heart", "star", "visa", "paypal",
     "banner", "ad", "thumb"}
AcceptKeywords == {"product", "item", "furniture", "sofa", "chair", "table"}
HasRejectKeyword(url) == \E k \in RejectKeywords : Contains(Lower(url), k)
HasAcceptKeyword(url) == \E k \in AcceptKeywords : Contains(Lower(url), k)

\* mutant: a URL with a reject-keyword and no accept-keyword is no image URL
is_relevant_image_url(url) ==
    /\ \E ext \in image_extensions : EndsWith(Lower(url), ext)
    /\ HasRejectKeyword(url) => HasAcceptKeyword(url)

\* is_image_url: the permissive classifier
is_image_url(url) ==
    IF url = "" \/ Len(url) < 4 THEN FALSE
    ELSE LET url_lower == Lower(url)
             url_without_query == SplitFirst(SplitFirst(url_lower, "?"), "#")
         IN  \/ Contains(url_lower, "cdn.shopify.com")
             \/ \E ext \in image_extensions : EndsWith(url_without_query, ext)
             \/ \E keyword \in image_keywords : Contains(url_lower, keyword)
             \/ \E pattern \in cdn_patterns : Contains(url_lower, pattern)
             \/ Contains(url_lower, "image")
             \/ Contains(url_lower, "img")
             \/ Contains(url_lower, "photo")

\* the candidate URLs a page's markup can hold (the list `images` of
\* extract_all_images before its last filter)
CandURLs == {"a.com/logo.png", "a.com/sofa-product.jpg", "a.com/about", ""}

\* what extract_images_aggressive can return for a page
AggrURLs == {"https://x.com/pic.png"}

\* is_image_url on every candidate, computed once
IsImageUrl == [u \in CandURLs |-> is_image_url(u)]

\* extract_all_images, lines 161-173: the candidates is_image_url accepts,
\* without duplicates
extract_all_images(cands) == {u \in cands : u # "" /\ IsImageUrl[u]}

\* the markup of a page, as far as images go: its candidates, and what the
\* aggressive extraction finds in it
Markups ==
    {[cands |-> {}, aggr |-> {}],
     [cands |-> {"a.com/about", ""}, aggr |-> AggrURLs],
     [cands |-> {"a.com/logo.png", "a.com/sofa-product.jpg"}, aggr |-> AggrURLs]}

\* a page as the server answers it: the fetch succeeds or raises, and the
\* markup holds hrefs and image candidates
Responses ==
    {[ok |-> TRUE, hrefs |-> h, cands |-> m.cands, aggr |-> m.aggr] :
        h \in SUBSET site.hrefs, m \in site.markups}
        \cup {[ok |-> FALSE, hrefs |-> {}, cands |-> {}, aggr |-> {}]}

---------------------------------------------------------------------------
(* crawl_website *)

\* result_bytes before create_all_ppts has returned
NoResult == [kind |-> "none", entries |-> <<>>]

\* the literals of `while to_visit and page_count < 1000` and of
\* `list(to_visit)[:10]`, scaled down so that the ceiling is reached
SAFETY_LIMIT == 4
PAGES_PER_BATCH == 2

Min(a, b) == IF a < b THEN a ELSE b

\* base_url as main builds it from the text the user entered: any page of the
\* site under any of its host names, with or without a fragment
Seeds ==
    {[host |-> "a.com", path |-> 0, frag |-> NoFragment],
     [host |-> "a.com", path |-> 0, frag |-> "top"],
     [host |-> "www.a.com", path |-> 0, frag |-> NoFragment],
     [host |-> "dev.www.a.com", path |-> 0, frag |-> NoFragment]}

\* mutant: no URL counts as visited
NeverVisited(url, visited) == FALSE

\* `url in self.visited_urls`, line 305
AlreadyVisited(url, visited) == url \in visited

\* list(set(total_images)), line 348: every URL of the list, once
unique_images(images) == BagToSet(images)

\* mutant: the batch is not removed from the frontier
FrontierKeepsBatch(frontier, batch) == frontier

\* the frontier after a batch is taken from it: to_visit -= set(current_batch)
FrontierAfterBatch(frontier, batch) == frontier \ batch

\* the images of a fetched page: extract_all_images, else the aggressive fallback
page_images(r) ==
    IF extract_all_images(r.cands) # {} THEN extract_all_images(r.cands) ELSE r.aggr

\* mutant: the except clause is outside the for loop, so a fetch that raised
\* ends the batch
BatchAbandoned(batch, url) == {}

\* the remainder of the batch after a fetch that raised: the except clause is
\* inside the for loop, so only that URL is dropped
BatchAfterFailure(batch, url) == batch \ {url}

\* the scraper as __init__ leaves it, and main at its call of crawl_website
ScraperInit ==
    /\ to_visit = {base_url}
    /\ visited_urls = {}
    /\ current_batch = {}
    /\ page_count = 0
    /\ total_images = EmptyBag
    /\ image_urls = {}
    /\ tasks = <<>>
    /\ seen_hashes = {}
    /\ valid_images = <<>>
    /\ collected = {}
    /\ result = NoResult
    /\ found_cands = {}
    /\ failed_pages = {}
    /\ pc = "crawl"

\* a site with many pages, whose images are not looked at
CrawlInit ==
    /\ base_url \in Seeds
    /\ site = [hrefs |-> Hrefs, markups |-> {[cands |-> {}, aggr |-> {}]}, bodies |-> {},
               chunks |-> {}]
    /\ ScraperInit

\* line 300-302: the loop test passes and a batch of at most 10 URLs is taken
CrawlTakeBatch ==
    /\ pc = "crawl" /\ current_batch = {}
    /\ to_visit # {} /\ page_count < SAFETY_LIMIT
    /\ \E batch \in SUBSET to_visit :
         /\ Cardinality(batch) = Min(PAGES_PER_BATCH, Cardinality(to_visit))
         /\ current_batch' = batch
         /\ to_visit' = FrontierAfterBatch(to_visit, batch)
    /\ UNCHANGED <<pc, base_url, visited_urls, page_count, total_images, image_urls,
                   found_cands, failed_pages, result, site>>
    /\ UNCHANGED download_vars

\* line 305-306: a URL of the batch that was visited already is skipped
CrawlSkipVisited ==
    /\ pc = "crawl"
    /\ \E url \in current_batch :
         /\ AlreadyVisited(url, visited_urls)
         /\ current_batch' = current_batch \ {url}
    /\ UNCHANGED <<pc, base_url, to_visit, visited_urls, page_count, total_images,
                   image_urls, found_cands, failed_pages, result, site>>
    /\ UNCHANGED download_vars

\* line 308-345: a URL of the batch is marked visited, counted and fetched; a
\* failed fetch is caught and the loop goes on with the next URL
CrawlFetchPage ==
    /\ pc = "crawl"
    /\ \E url \in current_batch : \E r \in Responses :
         /\ ~AlreadyVisited(url, visited_urls)
         /\ visited_urls' = visited_urls \cup {url}
         /\ page_count' = page_count + 1
         /\ IF r.ok
            THEN /\ total_images' = total_images (+) SetToBag(page_images(r))
                 /\ to_visit' = to_visit \cup extract_all_links(r.hrefs, visited_urls')
                 /\ current_batch' = current_batch \ {url}
                 /\ found_cands' = found_cands \cup r.cands
                 /\ UNCHANGED failed_pages
            ELSE /\ current_batch' = BatchAfterFailure(current_batch, url)
                 /\ failed_pages' = failed_pages \cup {url}
                 /\ UNCHANGED <<total_images, to_visit, found_cands>>
    /\ UNCHANGED <<pc, base_url, image_urls, result, site>>
    /\ UNCHANGED download_vars

\* line 300, 347-350: the loop test fails and the unique image URLs are returned
CrawlFinish ==
    /\ pc = "crawl" /\ current_batch = {}
    /\ ~(to_visit # {} /\ page_count < SAFETY_LIMIT)
    /\ image_urls' = unique_images(total_images)
    /\ pc' = "crawled"
    /\ UNCHANGED <<base_url, to_visit, visited_urls, current_batch, page_count,
                   total_images, found_cands, failed_pages, result, site>>
    /\ UNCHANGED download_vars

CrawlNext == CrawlTakeBatch \/ CrawlSkipVisited \/ CrawlFetchPage \/ CrawlFinish

CrawlSpec == CrawlInit /\ [][CrawlNext]_vars

---------------------------------------------------------------------------
(* download_and_validate_image *)

\* the size of the thread pool, line 23, scaled down
MAX_WORKERS == 2

\* MAX_FILE_SIZE, line 25, and the chunk_size of iter_content, line 370, scaled
\* down: the ceiling is two full chunks
MAX_FILE_SIZE == 32
CHUNK_SIZE == 16

MAX_DIMENSION == 1920

\* `if img.width < 50 or img.height < 50`, line 385
MIN_DIMENSION == 50

\* response.headers.get('content-length') when the header is missing
NoLength == -1

\* what an image URL can serve: the bytes iter_content yields, whether PIL
\* decodes them, the decoded size, whether the decoded image can be saved as
\* JPEG, and the content-length header (here the truthful one)
Body(bytes, decodes, w, h, encodes) ==
    [bytes |-> bytes, decodes |-> decodes, w |-> w, h |-> h, encodes |-> encodes,
     content_length |-> Len(bytes)]

\* the same answer with another content-length header, or with none: the header
\* is what the server says (for a compressed answer, the compressed length)
Declared(body, n) == [body EXCEPT !.content_length = n]

\* a payload of n bytes
RECURSIVE Payload(_)
Payload(n) == IF n = 0 THEN "" ELSE "x" \o Payload(n - 1)

NoBody == Body("", FALSE, 0, 0, FALSE)

Bodies ==
    {Body("photo-300x300", TRUE, 300, 300, TRUE),
     Body("strip-49x300", TRUE, 49, 300, TRUE),
     Body("strip-300x49", TRUE, 300, 49, TRUE),
     Body("dot-49x49", TRUE, 49, 49, TRUE),
     Body("edge-50x50", TRUE, 50, 50, TRUE),
     Body("poster-3840x1080", TRUE, 3840, 1080, TRUE),
     Body("odd-mode-300x300", TRUE, 300, 300, FALSE),
     Body("<html>", FALSE, 0, 0, FALSE)}

\* an image of one byte more than the ceiling, sent without content-length
Oversized == Declared(Body(Payload(MAX_FILE_SIZE + 1), TRUE, 300, 300, TRUE), NoLength)

\* hashlib.sha256(img_bytes).hexdigest(): one digest per byte string
Sha256(bytes) == "sha256:" \o bytes

\* mutant: an image is tiny only when both sides are short
TooSmallBothSides(w, h) == w < MIN_DIMENSION /\ h < MIN_DIMENSION

\* line 385: the image is skipped as tiny
TooSmall(w, h) == w < MIN_DIMENSION \/ h < MIN_DIMENSION

Max(a, b) == IF a > b THEN a ELSE b

\* lines 389-393: the size after the resize to at most 1920 on the longer side
ResizedSize(w, h) ==
    IF w > MAX_DIMENSION \/ h > MAX_DIMENSION
    THEN <<(w * MAX_DIMENSION) \div Max(w, h), (h * MAX_DIMENSION) \div Max(w, h)>>
    ELSE <<w, h>>

\* lines 408-411: the re-encoded JPEG payload
final_bytes(body) == <<"JPEG", ResizedSize(body.w, body.h), body.bytes>>

\* whether the hash check of line 377 lets the download through
HashIsNew(hash, seen) == hash \notin seen

\* a future: not started, streaming (the request is answered and img_bytes is
\* being filled), fetched (all bytes read), checked (hash check passed) or done;
\* buf is img_bytes, res is what download_and_validate_image returned, why is
\* the reason of a None
Task(st, body, buf, res, why) ==
    [st |-> st, body |-> body, buf |-> buf, res |-> res, why |-> why]

None == <<>>

PendingTask == Task("pending", NoBody, "", None, "")

\* the calls of download_and_validate_image that have begun and not returned
InFlight == {u \in DOMAIN tasks : tasks[u].st \in {"streaming", "fetched", "checked"}}

\* the download stops without a result
Drop(u, body, buf, why) ==
    tasks' = [tasks EXCEPT ![u] = Task("done", body, buf, None, why)]

\* mutant: a queued call starts whatever number of calls is running
WorkerAlwaysIdle(running) == TRUE

\* ThreadPoolExecutor(max_workers=MAX_WORKERS), line 429: a queued call starts
\* only on a thread that runs no other call
WorkerIdle(running) == running < MAX_WORKERS

\* mutant: the running byte count is allowed one chunk above the ceiling
OverCeilingByChunk(n) == n > MAX_FILE_SIZE + CHUNK_SIZE

\* `len(img_bytes) > MAX_FILE_SIZE`, line 372
OverCeiling(n) == n > MAX_FILE_SIZE

\* lines 355-369: a worker takes the next URL off the queue and sends the
\* request; the request raises or the answer is refused for its content type,
\* the declared content-length is above the ceiling, or the body starts to
\* stream into an empty img_bytes
TaskFetch ==
    /\ pc = "download"
    /\ WorkerIdle(Cardinality(InFlight))
    /\ \E u \in DOMAIN tasks :
         /\ tasks[u].st = "pending"
         /\ \/ Drop(u, NoBody, "", "fetch_failed")
            \/ \E body \in site.bodies :
                 IF body.content_length # NoLength /\ body.content_length > MAX_FILE_SIZE
                 THEN Drop(u, body, "", "declared_too_large")
                 ELSE tasks' = [tasks EXCEPT ![u] = Task("streaming", body, "", None, "")]
    /\ UNCHANGED <<pc, image_urls, seen_hashes, valid_images, collected, result, site>>
    /\ UNCHANGED crawl_vars

\* lines 370-373: the next chunk, of at most CHUNK_SIZE bytes, is appended to
\* img_bytes and the length is tested; after the last chunk the loop ends
TaskReadChunk ==
    /\ pc = "download"
    /\ \E u \in DOMAIN tasks : \E n \in site.chunks :
         LET body == tasks[u].body
             have == Len(tasks[u].buf)
             chunk == SubSeq(body.bytes, have + 1, Min(have + n, Len(body.bytes)))
             img_bytes == tasks[u].buf \o chunk
         IN  /\ tasks[u].st = "streaming"
             /\ n <= CHUNK_SIZE
             /\ IF OverCeiling(Len(img_bytes))
                THEN Drop(u, body, img_bytes, "too_large")
                ELSE tasks' = [tasks EXCEPT ![u].buf = img_bytes,
                                            ![u].st = IF Len(img_bytes) = Len(body.bytes)
                                                      THEN "fetched" ELSE "streaming"]
    /\ UNCHANGED <<pc, image_urls, seen_hashes, valid_images, collected, result, site>>
    /\ UNCHANGED crawl_vars

\* lines 376-378: the hash of img_bytes is computed and looked up in seen_hashes
TaskCheckHash ==
    /\ pc = "download"
    /\ \E u \in DOMAIN tasks :
         /\ tasks[u].st = "fetched"
         /\ IF HashIsNew(Sha256(tasks[u].buf), seen_hashes)
            THEN tasks' = [tasks EXCEPT ![u].st = "checked"]
            ELSE Drop(u, tasks[u].body, tasks[u].buf, "duplicate")
    /\ UNCHANGED <<pc, image_urls, seen_hashes, valid_images, collected, result, site>>
    /\ UNCHANGED crawl_vars

\* mutant: the hash is recorded whatever the call returns
SeenWhateverResult(seen, hash, res) == seen \cup {hash}

\* line 413: the hash is added on the one path that returns a result
SeenAfterValidate(seen, hash, res) == IF res # None THEN seen \cup {hash} ELSE seen

\* lines 381-417: the bytes are decoded, measured, resized and re-encoded; on
\* success the hash is added to seen_hashes and (url, final_bytes) is returned
TaskValidate ==
    /\ pc = "download"
    /\ \E u \in DOMAIN tasks :
         LET body == tasks[u].body
             why == IF ~body.decodes THEN "not_an_image"
                    ELSE IF TooSmall(body.w, body.h) THEN "too_small"
                    ELSE IF ~body.encodes THEN "encode_failed"
                    ELSE ""
             res == IF why = "" THEN <<u, final_bytes(body)>> ELSE None
         IN  /\ tasks[u].st = "checked"
             /\ tasks' = [tasks EXCEPT ![u] = Task("done", body, tasks[u].buf, res, why)]
             /\ seen_hashes' = SeenAfterValidate(seen_hashes, Sha256(tasks[u].buf), res)
    /\ UNCHANGED <<pc, image_urls, valid_images, collected, result, site>>
    /\ UNCHANGED crawl_vars

---------------------------------------------------------------------------
(* download_all_images *)

\* mutant: at most MAX_WORKERS URLs are submitted
SubmitSome(urls) ==
    [u \in (CHOOSE some \in SUBSET urls :
                Cardinality(some) = Min(MAX_WORKERS, Cardinality(urls))) |-> PendingTask]

\* line 430: one future per URL, all submitted before any result is read
SubmitAll(urls) == [u \in urls |-> PendingTask]

\* lines 433-440: as_completed yields a finished future; a result is appended
Collect ==
    /\ pc = "download"
    /\ \E u \in DOMAIN tasks :
         /\ tasks[u].st = "done" /\ u \notin collected
         /\ collected' = collected \cup {u}
         /\ valid_images' = IF tasks[u].res # None
                            THEN Append(valid_images, tasks[u].res)
                            ELSE valid_images
    /\ UNCHANGED <<pc, image_urls, tasks, seen_hashes, result, site>>
    /\ UNCHANGED crawl_vars

\* lines 441-443: every future was yielded, the executor is shut down and
\* valid_images is returned
DownloadReturn ==
    /\ pc = "download"
    /\ collected = DOMAIN tasks
    /\ pc' = "downloaded"
    /\ UNCHANGED <<image_urls, result, site>>
    /\ UNCHANGED download_vars
    /\ UNCHANGED crawl_vars

DownloadNext ==
    TaskFetch \/ TaskReadChunk \/ TaskCheckHash \/ TaskValidate \/ Collect \/ DownloadReturn

---------------------------------------------------------------------------
(* generate_ppt and create_all_ppts *)

IMAGES_PER_PPT == 200
IMAGES_PER_SLIDE == 4

\* mutant: the division rounds down
FloorDiv(n, d) == n \div d

\* (n + d - 1) // d
CeilDiv(n, d) == (n + d - 1) \div d

\* generate_ppt: one slide for every 4 images, in order
generate_ppt(images) ==
    [i \in 1..CeilDiv(Len(images), IMAGES_PER_SLIDE) |->
        SubSeq(images, (i - 1) * IMAGES_PER_SLIDE + 1,
               Min(i * IMAGES_PER_SLIDE, Len(images)))]

\* mutant: every batch after the first starts one image late
batch_images_late(images, batch_idx) ==
    LET start_idx == batch_idx * IMAGES_PER_PPT
        end_idx == Min(start_idx + IMAGES_PER_PPT, Len(images))
    IN  SubSeq(images, start_idx + 1 + Min(batch_idx, 1), end_idx)

\* lines 531-533: images[start_idx:end_idx] of the batch with index batch_idx
batch_images(images, batch_idx) ==
    LET start_idx == batch_idx * IMAGES_PER_PPT
        end_idx == Min(start_idx + IMAGES_PER_PPT, Len(images))
    IN  SubSeq(images, start_idx + 1, end_idx)

\* line 540: the name of a batch in the archive
filename(dom, batch_idx, n, timestamp) ==
    Replace(dom, ".", "_") \o "_batch_" \o ToString(batch_idx + 1) \o "_of_"
        \o ToString(n) \o "_" \o timestamp \o ".pptx"

\* what datetime.now().strftime("%Y%m%d_%H%M%S") gives during one run
Timestamps == <<"20240101_120000", "20240101_120001">>

\* the readings of the clock at the batches of one call: they never go back
Clocks(n) ==
    {c \in [1..n -> 1..Len(Timestamps)] : \A i \in 1..n : \A j \in i..n : c[i] <= c[j]}

\* create_all_ppts: one document when there is exactly one batch, else an
\* archive with one named document per batch
create_all_ppts(images, dom, clock) ==
    LET num_batches == CeilDiv(Len(images), IMAGES_PER_PPT) IN
    IF num_batches = 1
    THEN [kind |-> "pptx", entries |-> <<[name |-> "", doc |-> generate_ppt(images)]>>]
    ELSE [kind |-> "zip",
          entries |-> [b \in 1..num_batches |->
              [name |-> filename(dom, b - 1, num_batches, Timestamps[clock[b]]),
               doc |-> generate_ppt(batch_images(images, b - 1))]]]

---------------------------------------------------------------------------
(* main *)

\* mutant: the download starts whatever the crawl found
AfterCrawlUnchecked(urls) == "download"

\* lines 619-640: no image URL ends the run, else the download starts
AfterCrawl(urls) == IF urls = {} THEN "no_images" ELSE "download"

\* lines 642-653: no valid image ends the run, else the decks are composed
AfterDownload(images) == IF images = <<>> THEN "no_valid_images" ELSE "compose"

MainAfterCrawl ==
    /\ pc = "crawled"
    /\ pc' = AfterCrawl(image_urls)
    /\ tasks' = IF pc' = "download" THEN SubmitAll(image_urls) ELSE tasks
    /\ UNCHANGED <<image_urls, seen_hashes, valid_images, collected, result, site>>
    /\ UNCHANGED crawl_vars

MainAfterDownload ==
    /\ pc = "downloaded"
    /\ pc' = AfterDownload(valid_images)
    /\ UNCHANGED <<image_urls, result, site>>
    /\ UNCHANGED download_vars
    /\ UNCHANGED crawl_vars

\* lines 653-656 and 716-719: create_all_ppts returns and the run is complete,
\* or composing raises and main reports a fatal error
MainCompose ==
    /\ pc = "compose"
    /\ \/ \E clock \in Clocks(CeilDiv(Len(valid_images), IMAGES_PER_PPT)) :
            /\ result' = create_all_ppts(valid_images, domain, clock)
            /\ pc' = "complete"
       \/ /\ pc' = "fatal"
          /\ UNCHANGED result
    /\ UNCHANGED <<image_urls, site>>
    /\ UNCHANGED download_vars
    /\ UNCHANGED crawl_vars

---------------------------------------------------------------------------
(* Specifications *)

PageUrl(host, path, frag) == [host |-> host, path |-> path, frag |-> frag]

\* main on a small site: three pages, three image URLs
Init ==
    /\ base_url = PageUrl("a.com", 0, NoFragment)
    /\ site = [hrefs |-> {PageUrl("a.com", 1, NoFragment), PageUrl("www.a.com", 1, "top")},
               markups |-> Markups,
               bodies |-> {Body("photo-300x300", TRUE, 300, 300, TRUE),
                           Body("dot-49x49", TRUE, 49, 49, TRUE)},
               chunks |-> {CHUNK_SIZE}]
    /\ ScraperInit

Next == CrawlNext \/ MainAfterCrawl \/ DownloadNext \/ MainAfterDownload \/ MainCompose

Spec == Init /\ [][Next]_vars

\* crawl_website alone; every fetch returns or times out, so the loop keeps going
CrawlFair == CrawlSpec /\ WF_vars(CrawlNext)

\* main with every step eventually taken: each request has a timeout, each
\* worker thread runs on, and main blocks on nothing else
FairSpec == Spec /\ WF_vars(Next)

\* download_all_images alone, on the image URLs a one-page crawl has found
\* (main calls it with a non-empty list only)
ImageURLPool ==
    {"a.com/logo.png", "a.com/sofa-product.jpg", "https://x.com/pic.png"}

DownloadInit ==
    /\ base_url = PageUrl("a.com", 0, NoFragment)
    /\ site = [hrefs |-> {}, markups |-> {}, bodies |-> Bodies \cup {Oversized},
               chunks |-> {CHUNK_SIZE}]
    /\ to_visit = {}
    /\ visited_urls = {base_url}
    /\ current_batch = {}
    /\ page_count = 1
    /\ image_urls \in (SUBSET ImageURLPool) \ {{}}
    /\ total_images = SetToBag(image_urls)
    /\ tasks = SubmitAll(image_urls)
    /\ seen_hashes = {}
    /\ valid_images = <<>>
    /\ collected = {}
    /\ result = NoResult
    /\ found_cands = image_urls
    /\ failed_pages = {}
    /\ pc = "download"

DownloadSpec == DownloadInit /\ [][DownloadNext]_vars

\* download_and_validate_image alone, one URL: payloads around the ceiling, with
\* no content-length, the truthful one, one that understates and one that
\* overstates, arriving in chunks of every length up to CHUNK_SIZE
MaxBytes == 50

StreamSizes ==
    {1, CHUNK_SIZE, MAX_FILE_SIZE - 1, MAX_FILE_SIZE, MAX_FILE_SIZE + 1, MaxBytes}

StreamBodies ==
    UNION {{Declared(Body(Payload(n), TRUE, 300, 300, TRUE), cl) :
                cl \in {NoLength, n, 1, MAX_FILE_SIZE + 1}} : n \in StreamSizes}

StreamInit ==
    /\ base_url = PageUrl("a.com", 0, NoFragment)
    /\ site = [hrefs |-> {}, markups |-> {}, bodies |-> StreamBodies,
               chunks |-> 1..CHUNK_SIZE]
    /\ to_visit = {}
    /\ visited_urls = {base_url}
    /\ current_batch = {}
    /\ page_count = 1
    /\ image_urls = {"a.com/sofa-product.jpg"}
    /\ total_images = SetToBag(image_urls)
    /\ tasks = SubmitAll(image_urls)
    /\ seen_hashes = {}
    /\ valid_images = <<>>
    /\ collected = {}
    /\ result = NoResult
    /\ found_cands = image_urls
    /\ failed_pages = {}
    /\ pc = "download"

StreamSpec == StreamInit /\ [][DownloadNext]_vars

\* create_all_ppts alone, on every number of images up to MaxImages
MaxImages == 410

Image(i) == <<"https://a.com/img/" \o ToString(i), <<"JPEG", <<300, 300>>, ToString(i)>>>>

PptInit ==
    /\ base_url = PageUrl("www.a.com", 0, NoFragment)
    /\ site = [hrefs |-> {}, markups |-> {}, bodies |-> {}, chunks |-> {}]
    /\ \E n \in 0..MaxImages : valid_images = [i \in 1..n |-> Image(i)]
    /\ to_visit = {}
    /\ visited_urls = {base_url}
    /\ current_batch = {}
    /\ page_count = 1
    /\ total_images = EmptyBag
    /\ image_urls = {}
    /\ tasks = <<>>
    /\ seen_hashes = {}
    /\ collected = {}
    /\ result = NoResult
    /\ found_cands = {}
    /\ failed_pages = {}
    /\ pc = "compose"

PptSpec == PptInit /\ [][MainCompose]_vars

---------------------------------------------------------------------------
(* Properties *)

\* the raw bytes a returned image was made from
RawBytesOf(entry) == tasks[entry[1]].body.bytes

ReturnedUrls == {valid_images[i][1] : i \in 1..Len(valid_images)}

\* C1: the list download_all_images builds never holds two entries whose raw
\* bytes have the same SHA-256 hash, whatever the interleaving of the workers
C1_NoDuplicateContent ==
    \A i, j \in 1..Len(valid_images) :
        i # j => Sha256(RawBytesOf(valid_images[i])) # Sha256(RawBytesOf(valid_images[j]))

\* C2: crawl_website terminates, and it does so with the frontier empty or the
\* page count at the ceiling
C2_CrawlTerminates ==
    <>(pc = "crawled" /\ (to_visit = {} \/ page_count >= SAFETY_LIMIT))

\* C2 witness: the crawl has ended at the ceiling with links left in the
\* frontier, after a page fetch that failed
C2_Witness ==
    pc = "crawled" /\ to_visit # {} /\ page_count >= SAFETY_LIMIT /\ failed_pages # {}

\* C3: the number of pages fetched never exceeds the safety ceiling
C3_PageCountWithinCeiling ==
    page_count <= SAFETY_LIMIT /\ Cardinality(visited_urls) <= SAFETY_LIMIT

\* a cap on validated images: any number below the number of URLs of the site
ImageCap == Cardinality(ImageURLPool) - 1

\* C4 as claimed: once the collected results reach the cap no pending download
\* starts, and the engine returns at most cap results
C4_CapStopsDownloads ==
    [][/\ Len(valid_images) >= ImageCap =>
            \A u \in DOMAIN tasks : tasks[u].st = "pending" => tasks'[u].st = "pending"
       /\ pc' = "downloaded" => Len(valid_images') <= ImageCap]_vars

\* C4 as amended: there is no cap; every URL is submitted, and the engine
\* returns only when every URL was processed, with one result per URL whose
\* download validated
C4_NoCap ==
    /\ pc \in {"download", "downloaded"} => DOMAIN tasks = image_urls
    /\ pc = "downloaded" =>
         /\ \A u \in image_urls : tasks[u].st = "done"
         /\ collected = image_urls
         /\ ReturnedUrls = {u \in image_urls : tasks[u].res # None}
         /\ Len(valid_images) = Cardinality(ReturnedUrls)

\* C4 witness: the engine has returned a result for every URL of the site,
\* more than the cap
C4_Witness ==
    /\ pc = "downloaded"
    /\ image_urls = ImageURLPool
    /\ Len(valid_images) = Cardinality(ImageURLPool)
    /\ Len(valid_images) > ImageCap

\* the images of a composed document, slide after slide
RECURSIVE DocImages(_)
DocImages(doc) ==
    IF doc = <<>> THEN <<>> ELSE Head(doc) \o DocImages(Tail(doc))

\* the images of the documents of a result, entry after entry
RECURSIVE AllImages(_)
AllImages(entries) ==
    IF entries = <<>> THEN <<>> ELSE DocImages(Head(entries).doc) \o AllImages(Tail(entries))

\* ceil(n / b): the least k with k * b >= n
Ceil(n, b) == CHOOSE k \in 0..n : k * b >= n /\ (k = 0 \/ (k - 1) * b < n)

\* C5: create_all_ppts on N images composes ceil(N/B) batches, each of B images
\* but the last, which has N - B*(ceil(N/B)-1); one batch gives a plain
\* document, any other number an archive with that many entries
C5_BatchCountAndSizes ==
    pc = "complete" =>
        LET N == Len(valid_images)
            B == IMAGES_PER_PPT
            k == Ceil(N, B)
        IN  /\ Len(result.entries) = k
            /\ \A b \in 1..k :
                 Len(DocImages(result.entries[b].doc)) =
                    IF b < k THEN B ELSE N - B * (k - 1)
            /\ result.kind = IF k = 1 THEN "pptx" ELSE "zip"

\* C5 witness: 250 images became an archive of 2 entries with 200 and 50 images
C5_Witness ==
    /\ pc = "complete"
    /\ Len(valid_images) = 250
    /\ result.kind = "zip"
    /\ Len(result.entries) = 2
    /\ Len(DocImages(result.entries[1].doc)) = 200
    /\ Len(DocImages(result.entries[2].doc)) = 50

\* C6: the batches are contiguous slices of the input in order, so that their
\* concatenation is the input, and distinct batches have distinct entry names
C6_OrderPreservingPartition ==
    pc = "complete" =>
        /\ AllImages(result.entries) = valid_images
        /\ \A b \in 1..Len(result.entries) :
             DocImages(result.entries[b].doc) =
                SubSeq(valid_images, (b - 1) * IMAGES_PER_PPT + 1,
                       Min(b * IMAGES_PER_PPT, Len(valid_images)))
        /\ \A a, b \in 1..Len(result.entries) :
             a # b => result.entries[a].name # result.entries[b].name

\* C6 witness: an archive of three batches, two of them named in the same second
C6_Witness ==
    /\ pc = "complete"
    /\ Len(valid_images) > 2 * IMAGES_PER_PPT
    /\ Len(result.entries) = 3
    /\ \E a, b \in 1..3 :
         a # b /\ SubSeq(result.entries[a].name, 24, 38) = SubSeq(result.entries[b].name, 24, 38)

\* C7 as claimed: a URL with a reject-keyword and no accept-keyword is never
\* handed to the download stage
C7_RejectKeywordFiltered ==
    pc # "crawl" => \A u \in image_urls : HasRejectKeyword(u) => HasAcceptKeyword(u)

\* a URL whose path, query and fragment stripped, ends with .png or .jpg
HasPngOrJpgExtension(url) ==
    LET path == Lower(SplitFirst(SplitFirst(url, "?"), "#"))
    IN  EndsWith(path, ".png") \/ EndsWith(path, ".jpg")

\* C7 as amended: no relevance filter runs before the download; every candidate
\* of a fetched page that ends with an image extension is handed to the download
\* stage, with or without reject-keywords, and the candidates a.com/logo.png and
\* a.com/sofa-product.jpg both reach it
C7_NoRelevanceFilter ==
    pc # "crawl" =>
        /\ \A u \in found_cands : HasPngOrJpgExtension(u) => u \in image_urls
        /\ found_cands = {"a.com/logo.png", "a.com/sofa-product.jpg"} =>
             image_urls = {"a.com/logo.png", "a.com/sofa-product.jpg"}

\* C7 witness: the two candidates were found and both were submitted for download
C7_Witness ==
    /\ pc = "download"
    /\ found_cands = {"a.com/logo.png", "a.com/sofa-product.jpg"}
    /\ DOMAIN tasks = {"a.com/logo.png", "a.com/sofa-product.jpg"}
    /\ HasRejectKeyword("a.com/logo.png") /\ ~HasAcceptKeyword("a.com/logo.png")
    /\ HasAcceptKeyword("a.com/sofa-product.jpg")

\* the downloads that reached the size check of line 385
SizeChecked ==
    {u \in DOMAIN tasks :
        /\ tasks[u].st = "done" /\ tasks[u].body.decodes
        /\ tasks[u].why \in {"too_small", "encode_failed", ""}}

\* C8 as claimed: an image is dropped by the size rule exactly when both sides
\* are below the minimum, or it is square and below the square minimum of 400
C8_BothSidesOrSquare ==
    \A u \in SizeChecked :
        LET w == tasks[u].body.w
            h == tasks[u].body.h
        IN  tasks[u].why = "too_small" <=> ((w < 50 /\ h < 50) \/ (w = h /\ w < 400))

\* C8 as amended: an image is dropped by the size rule exactly when its width
\* or its height is below 50; there is no rule for square images, so an image
\* with one short side is dropped and a 300x300 image is kept
C8_EitherSideBelowMinimum ==
    \A u \in SizeChecked :
        LET w == tasks[u].body.w
            h == tasks[u].body.h
        IN  /\ tasks[u].why = "too_small" <=> (w < 50 \/ h < 50)
            /\ tasks[u].why = "too_small" => tasks[u].res = None
            /\ (w = 300 /\ h = 300 /\ tasks[u].body.encodes) => tasks[u].res # None

\* C8 witness: an image of 49x300 was dropped as too small and one of 300x300
\* was returned
C8_Witness ==
    \E u, v \in SizeChecked :
        /\ tasks[u].body.w = 49 /\ tasks[u].body.h = 300 /\ tasks[u].why = "too_small"
        /\ tasks[v].body.w = 300 /\ tasks[v].body.h = 300 /\ tasks[v].res # None

FetchFailed(u) == tasks[u].st = "done" /\ tasks[u].why = "fetch_failed"

\* C9: a failed page fetch drops only that page (no images, no links, the batch
\* and the frontier go on), a failed image fetch drops only that image (every
\* other URL is still processed), and neither ends the run
C9_FailureIsolation ==
    /\ [][/\ failed_pages' # failed_pages =>
               /\ total_images' = total_images
               /\ to_visit' = to_visit
               /\ current_batch' = current_batch \ (failed_pages' \ failed_pages)
               /\ pc' = "crawl"
          /\ \A u \in DOMAIN tasks :
               (~FetchFailed(u) /\ tasks'[u].st = "done" /\ tasks'[u].why = "fetch_failed") =>
                   /\ \A v \in DOMAIN tasks \ {u} : tasks'[v] = tasks[v]
                   /\ tasks'[u].res = None
                   /\ seen_hashes' = seen_hashes
                   /\ valid_images' = valid_images
                   /\ pc' = "download"
          /\ pc' = "fatal" => pc = "compose"]_vars
    /\ [](pc = "downloaded" =>
            /\ \A u \in image_urls : tasks[u].st = "done" /\ u \in collected
            /\ \A u \in image_urls : FetchFailed(u) => u \notin ReturnedUrls
            /\ \A u \in image_urls : tasks[u].res # None => u \in ReturnedUrls)

\* C9 witness: the run is complete although a page fetch and an image fetch
\* failed
C9_Witness ==
    /\ pc = "complete"
    /\ failed_pages # {}
    /\ Cardinality(visited_urls) > Cardinality(failed_pages) + 1
    /\ \E u \in image_urls : FetchFailed(u)
    /\ valid_images # <<>>

Terminals == {"no_images", "no_valid_images", "complete", "fatal"}

\* C10: no image URL ends the run as "no images" before any download, no valid
\* image ends it as "no valid images" before any composition, create_all_ppts
\* never gets an empty list, and a run stops in the four terminal states only
\* and does reach one of them
C10_TerminalStates ==
    /\ [][/\ pc' = "no_images" <=> (pc = "crawled" /\ image_urls = {})
          /\ pc' = "download" <=> (pc = "crawled" /\ image_urls # {})
          /\ pc' = "no_valid_images" <=> (pc = "downloaded" /\ valid_images = <<>>)
          /\ pc' = "compose" <=> (pc = "downloaded" /\ valid_images # <<>>)
          /\ pc' \in {"complete", "fatal"} <=> pc = "compose"]_<<pc>>
    /\ [](pc = "no_images" => tasks = <<>> /\ valid_images = <<>> /\ result = NoResult)
    /\ [](pc = "no_valid_images" => image_urls # {} /\ result = NoResult)
    /\ [](pc = "compose" => valid_images # <<>>)
    /\ [](pc \in Terminals <=> ~ENABLED Next)
    /\ <>(pc \in Terminals)

\* C10 witness: the download has returned nothing and the run has ended as
\* "no valid images"
C10_Witness ==
    /\ pc = "no_valid_images"
    /\ image_urls # {}
    /\ \A u \in image_urls : tasks[u].st = "done" /\ tasks[u].res = None
    /\ result = NoResult

\* C11: never more than MAX_WORKERS calls of download_and_validate_image are in
\* flight, however many URLs were submitted, and download_all_images returns
\* only when every submitted call has finished
C11_BoundedConcurrency ==
    /\ Cardinality(InFlight) <= MAX_WORKERS
    /\ pc = "download" => DOMAIN tasks = image_urls
    /\ pc = "downloaded" => \A u \in image_urls : tasks[u].st = "done"

\* C11 witness: more URLs than workers were submitted, every worker runs a call
\* and a call is still waiting in the queue
C11_Witness ==
    /\ pc = "download"
    /\ Cardinality(image_urls) > MAX_WORKERS
    /\ Cardinality(InFlight) = MAX_WORKERS
    /\ \E u \in image_urls : tasks[u].st = "pending"

\* C12: img_bytes never holds more than MAX_FILE_SIZE plus one chunk; a call
\* whose img_bytes went above MAX_FILE_SIZE has returned None at once; and a
\* returned image was made from a payload of at most MAX_FILE_SIZE bytes that
\* was read in full, whatever the content-length header said
C12_SizeCeiling ==
    \A u \in DOMAIN tasks :
        /\ Len(tasks[u].buf) <= MAX_FILE_SIZE + CHUNK_SIZE
        /\ Len(tasks[u].buf) > MAX_FILE_SIZE =>
              tasks[u].st = "done" /\ tasks[u].res = None /\ tasks[u].why = "too_large"
        /\ tasks[u].res # None =>
              /\ tasks[u].buf = tasks[u].body.bytes
              /\ Len(tasks[u].body.bytes) <= MAX_FILE_SIZE

\* C12 witness: a payload whose content-length header understated it was cut
\* off with img_bytes at the ceiling plus one full chunk
C12_Witness ==
    \E u \in DOMAIN tasks :
        /\ tasks[u].st = "done" /\ tasks[u].why = "too_large" /\ tasks[u].res = None
        /\ tasks[u].body.content_length = 1
        /\ Len(tasks[u].body.bytes) = MaxBytes
        /\ Len(tasks[u].buf) = MAX_FILE_SIZE + CHUNK_SIZE

\* the calls that have returned in this step
Returning == {u \in DOMAIN tasks : tasks[u].st # "done" /\ tasks'[u].st = "done"}

\* C14: a call that returns None leaves seen_hashes as it is, a call that
\* returns a result adds the hash of its raw bytes and nothing else, nothing
\* else changes seen_hashes, and when the download stage has ended seen_hashes
\* is the set of the raw-content hashes of the returned images
C14_SeenHashesOnSuccessOnly ==
    /\ [][/\ \A u \in Returning :
               seen_hashes' = IF tasks'[u].res = None THEN seen_hashes
                              ELSE seen_hashes \cup {Sha256(tasks'[u].buf)}
          /\ seen_hashes' # seen_hashes => \E u \in Returning : tasks'[u].res # None]_vars
    /\ [](pc = "downloaded" =>
            seen_hashes = {Sha256(RawBytesOf(valid_images[i])) : i \in 1..Len(valid_images)})

\* C14 witness: the stage has ended with one image returned, one call dropped
\* as a duplicate and one dropped as oversized, and one hash in seen_hashes
C14_Witness ==
    /\ pc = "downloaded"
    /\ Len(valid_images) = 1
    /\ \E u, v \in image_urls : tasks[u].why = "duplicate" /\ tasks[v].why = "too_large"
    /\ Cardinality(seen_hashes) = 1

\* C13: no two fetched page URLs differ only by their fragment, whatever the
\* seed, a seed with a fragment included
C13_FragmentDedupe ==
    \A u, v \in visited_urls : normalize_url(u) = normalize_url(v) => u = v

\* the position of a future in its life
TaskRank(st) ==
    CASE st = "pending" -> 0 []
         st = "streaming" -> 1 []
         st = "fetched" -> 2 []
         st = "checked" -> 3 []
         st = "done" -> 4

\* C15: every page fetch is of a URL not visited before, which becomes and
\* stays visited also when the fetch fails, so that no page is fetched twice;
\* the download stage gets one future per distinct image URL found, a future
\* never goes back to an earlier position, and one that is done stays as it is
C15_SingleAttempt ==
    /\ [][/\ page_count' # page_count =>
               /\ page_count' = page_count + 1
               /\ \E url \in current_batch \ visited_urls :
                    visited_urls' = visited_urls \cup {url}
          /\ visited_urls' # visited_urls => page_count' # page_count
          /\ visited_urls \subseteq visited_urls'
          /\ failed_pages' \subseteq visited_urls'
          /\ \A u \in DOMAIN tasks :
               /\ u \in DOMAIN tasks'
               /\ TaskRank(tasks'[u].st) >= TaskRank(tasks[u].st)
               /\ tasks[u].st = "done" => tasks'[u] = tasks[u]
          /\ tasks # <<>> => DOMAIN tasks' = DOMAIN tasks]_vars
    /\ [](page_count = Cardinality(visited_urls))
    /\ [](pc \notin {"crawl", "crawled", "no_images"} =>
            /\ image_urls = BagToSet(total_images)
            /\ DOMAIN tasks = image_urls)

\* C15 witness: three pages were fetched, one of them failed, an image URL was
\* found on two pages, and the download stage has ended with one future for
\* it, which failed
C15_Witness ==
    /\ pc = "downloaded"
    /\ page_count = 3 /\ Cardinality(visited_urls) = 3
    /\ failed_pages # {}
    /\ \E u \in image_urls :
         CopiesIn(u, total_images) = 2 /\ tasks[u].st = "done" /\ tasks[u].why = "fetch_failed"

\* a host without its leading "www."
StripWww(h) ==
    IF Len(h) >= 4 /\ SubSeq(h, 1, 4) = "www." THEN SubSeq(h, 5, Len(h)) ELSE h

\* the hosts of the site of a seed host: the host, its "www."-prefixed variant
\* and its "www."-stripped variant
SameSiteHosts == [h \in Hosts |-> {h, "www." \o h, StripWww(h)}]

\* C16: every URL of the frontier or of the visited set, the seed apart, is on
\* the seed's host or one of its two www. variants, and the visited set never
\* loses an element
C16_CrawlStaysInDomain ==
    /\ [][visited_urls \subseteq visited_urls']_vars
    /\ [](\A u \in (to_visit \cup current_batch \cup visited_urls) \ {base_url} :
            u.host \in SameSiteHosts[domain])

====
